---- MODULE Spec2Model ----
(***************************************************************************)
(* Track-Save: the ledger store (DatabaseStorage) and the express routes   *)
(* in front of it.  Tables are sets of rows; a request is one action that  *)
(* runs the isAuthenticated middleware, the zod validation, the storage    *)
(* call and records the response.                                          *)
(***************************************************************************)
EXTENDS Integers, Sequences, FiniteSets, TLC

VARIABLES users, transactions, budgets, goals, now, nextId, resp, removed, today,
          session, inflight

vars == <<users, transactions, budgets, goals, now, nextId, resp, removed, today,
          session, inflight>>

(***************************************************************************)
(* Bounds of the exploration.                                              *)
(***************************************************************************)
\* number of requests served in one behaviour (the clock advances per request)
MaxClock == 3
\* number of rows the tables may ever have been given (ids handed out)
MaxRows == 2

(***************************************************************************)
(* Values.  A JSON / JS value carried by a request is a record             *)
(*   js  : the JavaScript type ("string", "number", "object")              *)
(*   lit : what the text spells ("text", "dec" a decimal literal in        *)
(*         thousandths, "date" a YYYY-MM-DD literal as the number YYYYMMDD)*)
(***************************************************************************)
Str(s) == [js |-> "string", lit |-> "text", s |-> s, n |-> 0]
Dec(m) == [js |-> "string", lit |-> "dec", s |-> "", n |-> m]
DateStr(d) == [js |-> "string", lit |-> "date", s |-> "", n |-> d]
Num(m) == [js |-> "number", lit |-> "dec", s |-> "", n |-> m]
JsDate(t) == [js |-> "object", lit |-> "date", s |-> "", n |-> t]
Null == [js |-> "null", lit |-> "null", s |-> "", n |-> 0]

Owners == {"u1", "u2"}

IdNames == <<"id1", "id2", "id3", "id4", "id5", "id6">>

\* an id generator that hands out a used value again
gen_reused_uuid == IdNames[1]

\* gen_random_uuid(): a value no row has been given before
gen_random_uuid == IdNames[nextId]

\* the ids requests name in their :id parameter
RequestIds == {IdNames[1], IdNames[2]}

Range(s) == {s[i] : i \in DOMAIN s}

\* { ...a, ...b }
Spread(a, b) ==
    [k \in DOMAIN a \cup DOMAIN b |-> IF k \in DOMAIN b THEN b[k] ELSE a[k]]

Only(a, keys) == [k \in DOMAIN a \cap keys |-> a[k]]

(***************************************************************************)
(* shared/schema.ts: enums and tables                                      *)
(***************************************************************************)
transactionTypeEnum == {"income", "expense"}

\* in declaration order, which is the order the database sorts the enum by
categoryEnumValues ==
    <<"food", "transportation", "entertainment", "utilities", "healthcare",
      "shopping", "income", "salary", "freelance", "investment", "other">>

categoryEnum == Range(categoryEnumValues)

\* decimal(precision, scale)
Precision == 10
Scale == 2

RECURSIVE Pow10(_)
Pow10(e) == IF e = 0 THEN 1 ELSE 10 * Pow10(e - 1)

Abs(x) == IF x < 0 THEN -x ELSE x

\* text -> numeric(10,2): the stored value in hundredths, rounded half away
\* from zero from the literal's thousandths
ToNumeric(m) ==
    LET unit == Pow10(3 - Scale)
        q == (Abs(m) + unit \div 2) \div unit
    IN  IF m < 0 THEN -q ELSE q

RECURSIVE Digits(_)
Digits(x) == IF x < 10 THEN 1 ELSE 1 + Digits(x \div 10)

\* numeric(10,2) holds at most Precision digits
NumericFits(c) == Digits(Abs(c)) <= Precision

IsLeap(y) == (y % 4 = 0 /\ y % 100 # 0) \/ y % 400 = 0

DaysInMonth(y, m) ==
    IF m = 2 THEN (IF IsLeap(y) THEN 29 ELSE 28)
    ELSE IF m \in {4, 6, 9, 11} THEN 30 ELSE 31

\* text -> date: the literal must name a calendar day
IsValidDate(d) ==
    LET y == d \div 10000
        m == (d \div 100) % 100
        day == d % 100
    IN  /\ m >= 1 /\ m <= 12
        /\ day >= 1 /\ day <= DaysInMonth(y, m)

\* Column descriptions: sql type, enum values, NOT NULL, has a default.
Col(type, values, notNull, hasDefault) ==
    [type |-> type, values |-> values, notNull |-> notNull, hasDefault |-> hasDefault]

usersTable ==
    [id |-> Col("varchar", {}, TRUE, TRUE),
     email |-> Col("varchar", {}, FALSE, FALSE),
     firstName |-> Col("varchar", {}, FALSE, FALSE),
     lastName |-> Col("varchar", {}, FALSE, FALSE),
     profileImageUrl |-> Col("varchar", {}, FALSE, FALSE),
     defaultCurrency |-> Col("varchar", {}, FALSE, TRUE),
     createdAt |-> Col("timestamp", {}, FALSE, TRUE),
     updatedAt |-> Col("timestamp", {}, FALSE, TRUE)]

transactionsTable ==
    [id |-> Col("varchar", {}, TRUE, TRUE),
     userId |-> Col("varchar", {}, TRUE, FALSE),
     type |-> Col("enum", transactionTypeEnum, TRUE, FALSE),
     description |-> Col("text", {}, TRUE, FALSE),
     amount |-> Col("decimal", {}, TRUE, FALSE),
     category |-> Col("enum", categoryEnum, TRUE, FALSE),
     date |-> Col("date", {}, TRUE, FALSE),
     currency |-> Col("varchar", {}, FALSE, TRUE),
     createdAt |-> Col("timestamp", {}, FALSE, TRUE),
     updatedAt |-> Col("timestamp", {}, FALSE, TRUE)]

budgetsTable ==
    [id |-> Col("varchar", {}, TRUE, TRUE),
     userId |-> Col("varchar", {}, TRUE, FALSE),
     category |-> Col("enum", categoryEnum, TRUE, FALSE),
     amount |-> Col("decimal", {}, TRUE, FALSE),
     period |-> Col("varchar", {}, FALSE, TRUE),
     currency |-> Col("varchar", {}, FALSE, TRUE),
     createdAt |-> Col("timestamp", {}, FALSE, TRUE),
     updatedAt |-> Col("timestamp", {}, FALSE, TRUE)]

goalsTable ==
    [id |-> Col("varchar", {}, TRUE, TRUE),
     userId |-> Col("varchar", {}, TRUE, FALSE),
     name |-> Col("text", {}, TRUE, FALSE),
     description |-> Col("text", {}, FALSE, FALSE),
     targetAmount |-> Col("decimal", {}, TRUE, FALSE),
     currentAmount |-> Col("decimal", {}, FALSE, TRUE),
     targetDate |-> Col("date", {}, FALSE, FALSE),
     currency |-> Col("varchar", {}, FALSE, TRUE),
     createdAt |-> Col("timestamp", {}, FALSE, TRUE),
     updatedAt |-> Col("timestamp", {}, FALSE, TRUE)]

\* SQL NULL of a column
SqlNull(col) ==
    IF col.type \in {"decimal", "date", "timestamp"} THEN -1 ELSE "<null>"

\* the DEFAULT of a column: .default(...), .defaultNow()
ColumnDefault(k, col) ==
    IF ~col.hasDefault THEN SqlNull(col)
    ELSE IF k = "id" THEN gen_random_uuid
    ELSE IF col.type = "timestamp" THEN now
    ELSE IF k \in {"currency", "defaultCurrency"} THEN "INR"
    ELSE IF k = "period" THEN "monthly"
    ELSE IF k = "currentAmount" THEN 0
    ELSE SqlNull(col)

\* does the database accept value v for a column
ColumnAccepts(col, v) ==
    CASE v.js = "null" -> ~col.notNull
      [] col.type = "enum" -> v.lit = "text" /\ v.s \in col.values
      [] col.type = "decimal" -> v.lit = "dec" /\ NumericFits(ToNumeric(v.n))
      [] col.type = "date" -> v.lit = "date" /\ IsValidDate(v.n)
      [] col.type = "timestamp" -> v.lit = "date"
      [] OTHER -> v.lit = "text"

\* the value the database stores for v
ToColumn(col, v) ==
    CASE v.js = "null" -> SqlNull(col)
      [] col.type = "decimal" -> ToNumeric(v.n)
      [] col.type \in {"date", "timestamp"} -> v.n
      [] OTHER -> v.s

(***************************************************************************)
(* JavaScript numbers.  A number is a binary64 value: its sign, the 53     *)
(* bits of its significand (most significant first, <<>> for zero) and the *)
(* exponent of the last of them.                                           *)
(***************************************************************************)
MantissaBits == 53

Zero == [neg |-> FALSE, mant |-> <<>>, exp |-> 0]

\* the value that is no number
NaN == [neg |-> FALSE, mant |-> <<>>, exp |-> 1]

\* the binary digits of a natural number, <<>> for 0
NatBits(n) ==
    IF n = 0 THEN <<>>
    ELSE LET len == CHOOSE l \in 1..31 :
                        /\ n \div (2 ^ (l - 1)) = 1
                 IN  [i \in 1..len |-> (n \div (2 ^ (len - i))) % 2]

Zeros(n) == [i \in 1..n |-> 0]

StripZeros(bits) ==
    IF \A i \in DOMAIN bits : bits[i] = 0 THEN <<>>
    ELSE LET first == CHOOSE i \in DOMAIN bits :
                          bits[i] = 1 /\ \A j \in 1..(i - 1) : bits[j] = 0
         IN  SubSeq(bits, first, Len(bits))

DropZeros(bits) ==
    IF \A i \in DOMAIN bits : bits[i] = 0 THEN <<>>
    ELSE LET last == CHOOSE i \in DOMAIN bits :
                         bits[i] = 1 /\ \A j \in (i + 1)..Len(bits) : bits[j] = 0
         IN  SubSeq(bits, 1, last)

\* x + y + carry on bit strings of n bits; the result is one bit longer.  The
\* carry out of the bits after position i comes from the nearest position that
\* makes one, through positions that pass it on
AddBits(x, y, n, carry) ==
    LET c(i) == \/ \E j \in (i + 1)..n :
                       /\ x[j] + y[j] = 2
                       /\ \A k \in (i + 1)..(j - 1) : x[k] + y[k] = 1
                \/ carry = 1 /\ \A k \in (i + 1)..n : x[k] + y[k] = 1
    IN  [i \in 1..(n + 1) |->
            IF i = 1 THEN (IF c(0) THEN 1 ELSE 0)
            ELSE (x[i - 1] + y[i - 1] + (IF c(i - 1) THEN 1 ELSE 0)) % 2]

\* x - y - borrow on bit strings of n bits with x >= y + borrow
SubBits(x, y, n, borrow) ==
    LET b(i) == \/ \E j \in (i + 1)..n :
                       /\ x[j] < y[j]
                       /\ \A k \in (i + 1)..(j - 1) : x[k] = y[k]
                \/ borrow = 1 /\ \A k \in (i + 1)..n : x[k] = y[k]
    IN  [i \in 1..n |-> (2 + x[i] - y[i] - (IF b(i) THEN 1 ELSE 0)) % 2]

\* is x < y, for bit strings of one length
LessBits(x, y) ==
    \E i \in DOMAIN x : x[i] < y[i] /\ \A j \in 1..(i - 1) : x[j] = y[j]

\* round-to-nearest, ties to even: the number with the exact significand bits
\* (first bit 1, any length), the last of them of exponent exp, and more set
\* when something non-zero lies below the given bits
RoundBits(neg, bits, exp, more) ==
    LET n == Len(bits)
    IN  IF n <= MantissaBits
        THEN [neg |-> neg, mant |-> bits \o Zeros(MantissaBits - n),
              exp |-> exp - (MantissaBits - n)]
        ELSE LET kept == SubSeq(bits, 1, MantissaBits)
                 guard == bits[MantissaBits + 1]
                 sticky == more \/ \E i \in (MantissaBits + 2)..n : bits[i] = 1
                 up == guard = 1 /\ (sticky \/ kept[MantissaBits] = 1)
                 sum == AddBits(kept, Zeros(MantissaBits), MantissaBits, 1)
                 e == exp + (n - MantissaBits)
             IN  IF ~up THEN [neg |-> neg, mant |-> kept, exp |-> e]
                 ELSE IF sum[1] = 1
                      THEN [neg |-> neg, mant |-> SubSeq(sum, 1, MantissaBits),
                            exp |-> e + 1]
                      ELSE [neg |-> neg, mant |-> Tail(sum), exp |-> e]

\* 2^k modulo 100 (2^20 is 76 modulo 100)
RECURSIVE PowMod(_)
PowMod(k) == IF k < 20 THEN (2 ^ k) % 100 ELSE (PowMod(k - 20) * 76) % 100

\* what is left of r/100 below its k-th binary place, in hundredths of it
Remainder(r, k) == (r * PowMod(k)) % 100

\* the k-th binary place of r/100
FractionBit(r, k) == IF 2 * Remainder(r, k - 1) >= 100 THEN 1 ELSE 0

\* Number(text) of a decimal with two places, given in hundredths: the
\* binary64 value nearest to it
Number(c) ==
    IF c = 0 THEN Zero
    ELSE LET a == IF c < 0 THEN 0 - c ELSE c
             r == a % 100
             int == NatBits(a \div 100)
             skip == IF int # <<>> THEN 0
                     ELSE (CHOOSE k \in 1..7 :
                               /\ FractionBit(r, k) = 1
                               /\ \A j \in 1..(k - 1) : FractionBit(r, j) = 0) - 1
             n == skip + MantissaBits + 1 - Len(int)
             bits == int \o [k \in 1..(n - skip) |-> FractionBit(r, skip + k)]
         IN  RoundBits(c < 0, bits, 0 - n, Remainder(r, n) # 0)

\* a + b of two numbers; two zeros add up to -0 only when both are -0
Plus(a, b) ==
    IF a.mant = <<>> /\ b.mant = <<>>
    THEN [neg |-> a.neg /\ b.neg, mant |-> <<>>, exp |-> 0]
    ELSE IF a.mant = <<>> THEN b
    ELSE IF b.mant = <<>> THEN a
    ELSE LET e == IF a.exp < b.exp THEN a.exp ELSE b.exp
             ma == a.mant \o Zeros(a.exp - e)
             mb == b.mant \o Zeros(b.exp - e)
             n == IF Len(ma) > Len(mb) THEN Len(ma) ELSE Len(mb)
             x == Zeros(n - Len(ma)) \o ma
             y == Zeros(n - Len(mb)) \o mb
         IN  IF a.neg = b.neg
             THEN RoundBits(a.neg, StripZeros(AddBits(x, y, n, 0)), e, FALSE)
             ELSE IF x = y THEN Zero
             ELSE IF LessBits(x, y)
                  THEN RoundBits(b.neg, StripZeros(SubBits(y, x, n, 0)), e, FALSE)
                  ELSE RoundBits(a.neg, StripZeros(SubBits(x, y, n, 0)), e, FALSE)

\* a - b of two numbers
Minus(a, b) == Plus(a, [neg |-> ~b.neg, mant |-> b.mant, exp |-> b.exp])

\* x * y on bit strings, y read from its first bit: acc is the product so far
RECURSIVE MulBits(_, _, _, _)
MulBits(x, y, i, acc) ==
    IF i > Len(y) THEN acc
    ELSE LET twice == Append(acc, 0)
             n == IF Len(twice) > Len(x) THEN Len(twice) ELSE Len(x)
             sum == AddBits(Zeros(n - Len(twice)) \o twice,
                            Zeros(n - Len(x)) \o x, n, 0)
         IN  IF y[i] = 1 THEN MulBits(x, y, i + 1, StripZeros(sum))
             ELSE MulBits(x, y, i + 1, twice)

\* a * b of two numbers
Times(a, b) ==
    IF a.mant = <<>> \/ b.mant = <<>> THEN Zero
    ELSE LET y == DropZeros(b.mant)
         IN  RoundBits(a.neg # b.neg, MulBits(a.mant, y, 1, <<>>),
                       a.exp + b.exp + (Len(b.mant) - Len(y)), FALSE)

\* k more binary digits of rem / y, rem < y, both of n bits:
\* <<digits, remainder>>
RECURSIVE DivBits(_, _, _, _, _)
DivBits(rem, y, n, k, acc) ==
    IF k = 0 THEN <<acc, rem>>
    ELSE LET twice == Append(Tail(rem), 0)
         IN  IF LessBits(twice, y) THEN DivBits(twice, y, n, k - 1, Append(acc, 0))
             ELSE DivBits(SubBits(twice, y, n, 0), y, n, k - 1, Append(acc, 1))

\* a / b of two numbers, b not zero
Divide(a, b) ==
    IF a.mant = <<>> THEN Zero
    ELSE LET n == MantissaBits + 1
             x == <<0>> \o a.mant
             y == <<0>> \o b.mant
             first == IF LessBits(x, y) THEN 0 ELSE 1
             rem == IF first = 1 THEN SubBits(x, y, n, 0) ELSE x
             q == DivBits(rem, y, n, MantissaBits + 1, <<first>>)
         IN  RoundBits(a.neg # b.neg, StripZeros(q[1]),
                       a.exp - b.exp - (MantissaBits + 1),
                       \E i \in 1..n : q[2][i] = 1)

Positive(a) == a.mant # <<>> /\ ~a.neg

(***************************************************************************)
(* drizzle-zod: createInsertSchema(table).omit({...})                      *)
(***************************************************************************)
OmittedKeys == {"id", "userId", "createdAt", "updatedAt"}

createInsertSchema(table) == table

Omit(schema, keys) == [k \in DOMAIN schema \ keys |-> schema[k]]

insertTransactionSchema == Omit(createInsertSchema(transactionsTable), OmittedKeys)

insertBudgetSchema == Omit(createInsertSchema(budgetsTable), OmittedKeys)

insertGoalSchema == Omit(createInsertSchema(goalsTable), OmittedKeys)

\* the zod type of a column: z.enum for an enum, z.date for a timestamp,
\* z.string for text, varchar, decimal and date; nullable when the column is
ZodAccepts(col, v) ==
    CASE v.js = "null" -> ~col.notNull
      [] col.type = "enum" -> v.js = "string" /\ v.lit = "text" /\ v.s \in col.values
      [] col.type = "timestamp" -> v.js = "object"
      [] OTHER -> v.js = "string"

ZodOptional(col) == ~col.notNull \/ col.hasDefault

\* the keys of the body that schema.parse keeps: unknown keys are stripped
ParsedKeys(schema, body) == DOMAIN body \cap DOMAIN schema

\* a parse that passes unknown keys through
ParseKeepsUnknownKeys(schema, body, partial) ==
    [ok |-> \A k \in DOMAIN schema :
                IF k \in DOMAIN body THEN ZodAccepts(schema[k], body[k])
                ELSE partial \/ ZodOptional(schema[k]),
     data |-> body]

\* schema.parse(body) and schema.partial().parse(body)
Parse(schema, body, partial) ==
    [ok |-> \A k \in DOMAIN schema :
                IF k \in DOMAIN body THEN ZodAccepts(schema[k], body[k])
                ELSE partial \/ ZodOptional(schema[k]),
     data |-> Only(body, ParsedKeys(schema, body))]

(***************************************************************************)
(* The database: INSERT, UPDATE ... WHERE, DELETE ... WHERE on one table   *)
(***************************************************************************)
ValuesAccepted(table, values) ==
    /\ DOMAIN values \subseteq DOMAIN table
    /\ \A k \in DOMAIN values : ColumnAccepts(table[k], values[k])

ToRowValues(table, values) == [k \in DOMAIN values |-> ToColumn(table[k], values[k])]

\* INSERT INTO table VALUES (...) RETURNING *
SqlInsert(table, rows, values) ==
    LET ok == /\ ValuesAccepted(table, values)
              /\ \A k \in DOMAIN table \ DOMAIN values :
                    ~table[k].notNull \/ table[k].hasDefault
        given == ToRowValues(table, values)
        row == [k \in DOMAIN table |->
                   IF k \in DOMAIN values THEN given[k] ELSE ColumnDefault(k, table[k])]
    IN  IF ok /\ (\A r \in rows : r.id # row.id)
        THEN [error |-> FALSE, rows |-> rows \cup {row}, returning |-> <<row>>]
        ELSE [error |-> TRUE, rows |-> rows, returning |-> <<>>]

\* UPDATE table SET ... WHERE ... RETURNING *, hit the rows the WHERE matches
SqlUpdate(table, rows, set, hit) ==
    LET new == [r \in hit |-> Spread(r, ToRowValues(table, set))]
        kept == rows \ hit
        after == kept \cup {new[r] : r \in hit}
    IN  IF /\ ValuesAccepted(table, set)
           /\ Cardinality({r.id : r \in after}) = Cardinality(rows)
        THEN [error |-> FALSE, rows |-> after,
              returning |-> IF hit = {} THEN <<>> ELSE <<new[CHOOSE r \in hit : TRUE]>>]
        ELSE [error |-> TRUE, rows |-> rows, returning |-> <<>>]

\* DELETE FROM table WHERE ..., hit the rows the WHERE matches
SqlDelete(rows, hit) ==
    [error |-> FALSE, rows |-> rows \ hit, rowCount |-> Cardinality(hit)]

Perms(S) ==
    {s \in [1..Cardinality(S) -> S] :
        \A i, j \in 1..Cardinality(S) : i # j => s[i] # s[j]}

\* SELECT ... ORDER BY key: every order of the rows in which the keys ascend;
\* rows with equal keys come in whatever order the database produces
OrderBy(S, key) ==
    {s \in Perms(S) : \A i, j \in DOMAIN s : i < j => key[s[i]] <= key[s[j]]}

(***************************************************************************)
(* server/routes.ts: DatabaseStorage                                       *)
(***************************************************************************)
\* onConflictDoUpdate(target: users.id, set: {...userData, updatedAt: new Date()})
upsertUser(userData) ==
    LET id == ToColumn(usersTable.id, userData.id)
        clash == \E u \in users :
                    /\ u.id # id
                    /\ "email" \in DOMAIN userData
                    /\ userData.email.js # "null"
                    /\ u.email = userData.email.s
        conflict == \E u \in users : u.id = id
    IN  IF clash THEN [error |-> TRUE, rows |-> users, returning |-> <<>>]
        ELSE IF conflict
             THEN SqlUpdate(usersTable, users,
                            Spread(userData, [updatedAt |-> JsDate(now)]),
                            {u \in users : u.id = id})
             ELSE SqlInsert(usersTable, users, userData)

Truthy(filters, k) == k \in DOMAIN filters /\ filters[k] # Str("")

\* the conditions with an exclusive lower bound and no kind condition
transactionConditionsLoose(userId, filters) ==
    [r \in transactions |->
        /\ r.userId = userId
        /\ Truthy(filters, "startDate") => r.date > filters.startDate.n
        /\ Truthy(filters, "endDate") => r.date <= filters.endDate.n
        /\ Truthy(filters, "category") => r.category = filters.category.s]

\* the conditions getTransactions collects for its WHERE clause
transactionConditions(userId, filters) ==
    [r \in transactions |->
        /\ r.userId = userId
        /\ Truthy(filters, "startDate") => r.date >= filters.startDate.n
        /\ Truthy(filters, "endDate") => r.date <= filters.endDate.n
        /\ Truthy(filters, "category") => r.category = filters.category.s
        /\ Truthy(filters, "type") => r.type = filters.type.s]

FilterColumn == [startDate |-> "date", endDate |-> "date", category |-> "category", type |-> "type"]

\* desc(transactions.date)
dateDesc(rows) == [r \in rows |-> 0 - r.date]

getTransactions(userId, filters) ==
    LET cond == transactionConditions(userId, filters)
        ok == \A k \in DOMAIN FilterColumn :
                 Truthy(filters, k) =>
                     ColumnAccepts(transactionsTable[FilterColumn[k]], filters[k])
    IN  IF ok
        THEN [error |-> FALSE,
              results |-> LET rows == {r \in transactions : cond[r]}
                          IN  OrderBy(rows, dateDesc(rows))]
        ELSE [error |-> TRUE, results |-> {}]

createTransaction(transaction) ==
    SqlInsert(transactionsTable, transactions, transaction)

\* the update without the owner condition
updateTransactionAnyOwner(id, userId, updates) ==
    LET where == {r \in transactions : r.id = id}
    IN  SqlUpdate(transactionsTable, transactions,
                  Spread(updates, [updatedAt |-> JsDate(now)]), where)

\* the update that sets one of the fields of the patch and drops the others
updateTransactionOneField(id, userId, updates) ==
    LET where == {r \in transactions : r.id = id /\ r.userId = userId}
        one == IF DOMAIN updates = {} THEN {}
               ELSE {CHOOSE k \in DOMAIN updates : TRUE}
    IN  SqlUpdate(transactionsTable, transactions,
                  Spread([k \in one |-> updates[k]], [updatedAt |-> JsDate(now)]),
                  where)

updateTransaction(id, userId, updates) ==
    LET where == {r \in transactions : r.id = id /\ r.userId = userId}
    IN  SqlUpdate(transactionsTable, transactions,
                  Spread(updates, [updatedAt |-> JsDate(now)]), where)

\* the delete without the owner condition
deleteTransactionAnyOwner(id, userId) ==
    LET where == {r \in transactions : r.id = id}
        result == SqlDelete(transactions, where)
    IN  [error |-> result.error, rows |-> result.rows, result |-> result.rowCount > 0]

deleteTransaction(id, userId) ==
    LET where == {r \in transactions : r.id = id /\ r.userId = userId}
        result == SqlDelete(transactions, where)
    IN  [error |-> result.error, rows |-> result.rows, result |-> result.rowCount > 0]

\* position of a category in the enum's declaration
EnumIndex(c) == CHOOSE i \in DOMAIN categoryEnumValues : categoryEnumValues[i] = c

\* the names of the categories in the order of their spelling
categoryNames ==
    <<"entertainment", "food", "freelance", "healthcare", "income", "investment",
      "other", "salary", "shopping", "transportation", "utilities">>

\* the order of a text column: by the spelling of the category
categoryByName(rows) ==
    [r \in rows |-> CHOOSE i \in DOMAIN categoryNames : categoryNames[i] = r.category]

\* ORDER BY budgets.category: an enum column sorts by the place of the value
\* in the declaration of the enum
categoryAsc(rows) == [r \in rows |-> EnumIndex(r.category)]

getBudgets(userId) ==
    LET rows == {r \in budgets : r.userId = userId}
    IN  OrderBy(rows, categoryAsc(rows))

\* the insert under a unique (userId, category): a second budget of the pair
\* is refused
createBudgetOnePerCategory(budget) ==
    IF \E r \in budgets : r.userId = budget.userId.s /\ r.category = budget.category.s
    THEN [error |-> TRUE, rows |-> budgets, returning |-> <<>>]
    ELSE SqlInsert(budgetsTable, budgets, budget)

createBudget(budget) == SqlInsert(budgetsTable, budgets, budget)

\* the update that leaves updatedAt alone
updateBudgetNoTouch(id, userId, updates) ==
    LET where == {r \in budgets : r.id = id /\ r.userId = userId}
    IN  SqlUpdate(budgetsTable, budgets, updates, where)

\* the update without the owner condition
updateBudgetAnyOwner(id, userId, updates) ==
    LET where == {r \in budgets : r.id = id}
    IN  SqlUpdate(budgetsTable, budgets,
                  Spread(updates, [updatedAt |-> JsDate(now)]), where)

updateBudget(id, userId, updates) ==
    LET where == {r \in budgets : r.id = id /\ r.userId = userId}
    IN  SqlUpdate(budgetsTable, budgets,
                  Spread(updates, [updatedAt |-> JsDate(now)]), where)

deleteBudget(id, userId) ==
    LET where == {r \in budgets : r.id = id /\ r.userId = userId}
        result == SqlDelete(budgets, where)
    IN  [error |-> result.error, rows |-> result.rows, result |-> result.rowCount > 0]

createdAtAsc(rows) == [r \in rows |-> r.createdAt]

getGoals(userId) ==
    LET rows == {r \in goals : r.userId = userId}
    IN  OrderBy(rows, createdAtAsc(rows))

createGoal(goal) == SqlInsert(goalsTable, goals, goal)

updateGoal(id, userId, updates) ==
    LET where == {r \in goals : r.id = id /\ r.userId = userId}
    IN  SqlUpdate(goalsTable, goals,
                  Spread(updates, [updatedAt |-> JsDate(now)]), where)

deleteGoal(id, userId) ==
    LET where == {r \in goals : r.id = id /\ r.userId = userId}
        result == SqlDelete(goals, where)
    IN  [error |-> result.error, rows |-> result.rows, result |-> result.rowCount > 0]

\* sum(transactions.amount): NULL over no rows, else the exact decimal total
RECURSIVE Total(_)
Total(rows) ==
    IF rows = {} THEN 0
    ELSE LET r == CHOOSE x \in rows : TRUE IN r.amount + Total(rows \ {r})

sum(rows) == [null |-> rows = {}, n |-> Total(rows)]

\* Number(total || 0): the total comes back as text, which is truthy
NumberOrZero(total) == IF total.null THEN Zero ELSE Number(total.n)

\* the rows of one kind of every owner in the window
monthlyRowsAnyOwner(userId, type, startOfMonth, endOfMonth) ==
    {r \in transactions :
        r.type = type /\ r.date >= startOfMonth /\ r.date <= endOfMonth}

\* the rows the dashboard sums: the owner's, of one kind, in the window
monthlyRows(userId, type, startOfMonth, endOfMonth) ==
    {r \in transactions :
        /\ r.userId = userId
        /\ r.type = type
        /\ r.date >= startOfMonth
        /\ r.date <= endOfMonth}

\* the rate without the test of the income: a division by zero gives no number
savingsRateUnguarded(monthlyIncome, monthlyExpenses) ==
    IF monthlyIncome.mant = <<>> THEN NaN
    ELSE Times(Divide(Minus(monthlyIncome, monthlyExpenses), monthlyIncome),
               Number(10000))

\* monthlyIncome > 0 ? ((monthlyIncome - monthlyExpenses) / monthlyIncome) * 100 : 0
savingsRate(monthlyIncome, monthlyExpenses) ==
    IF Positive(monthlyIncome)
    THEN Times(Divide(Minus(monthlyIncome, monthlyExpenses), monthlyIncome),
               Number(10000))
    ELSE Zero

\* new Date().toISOString().slice(0, 7), as the number YYYYMM
currentMonth(date) == date \div 100

\* `${currentMonth}-01`
startOfMonth(date) == currentMonth(date) * 100 + 1

\* `${currentMonth}-31`
endOfMonth(date) == currentMonth(date) * 100 + 31

\* the window bounds are sent as text and read by the database as dates: a
\* bound that is no calendar date fails the query
getDashboardData(userId) ==
    LET incomeResult ==
            sum(monthlyRows(userId, "income", startOfMonth(today), endOfMonth(today)))
        expenseResult ==
            sum(monthlyRows(userId, "expense", startOfMonth(today), endOfMonth(today)))
        monthlyIncome == NumberOrZero(incomeResult)
        monthlyExpenses == NumberOrZero(expenseResult)
    IN  IF ~IsValidDate(startOfMonth(today)) \/ ~IsValidDate(endOfMonth(today))
        THEN [error |-> TRUE, data |-> <<>>]
        ELSE [error |-> FALSE,
              data |-> [totalBalance |-> Minus(monthlyIncome, monthlyExpenses),
                        monthlyIncome |-> monthlyIncome,
                        monthlyExpenses |-> monthlyExpenses,
                        savingsRate |-> savingsRate(monthlyIncome, monthlyExpenses)]]

\* the conditions without the kind
expenseConditionsAnyKind(userId, startDate, endDate) ==
    [r \in transactions |->
        r.userId = userId /\ r.date >= startDate /\ r.date <= endDate]

\* the WHERE clause of getExpensesByCategory
expenseConditions(userId, startDate, endDate) ==
    [r \in transactions |->
        /\ r.userId = userId
        /\ r.type = "expense"
        /\ r.date >= startDate
        /\ r.date <= endDate]

\* GROUP BY category with no ORDER BY: one row per category that has rows, in
\* whatever order the database produces
getExpensesByCategory(userId, startDate, endDate) ==
    LET cond == expenseConditions(userId, startDate.n, endDate.n)
        rows == {r \in transactions : cond[r]}
        result == {[category |-> c,
                    amount |-> sum({r \in rows : r.category = c})] :
                      c \in {r.category : r \in rows}}
        mapped == {[category |-> row.category, amount |-> NumberOrZero(row.amount)] :
                      row \in result}
    IN  IF \A d \in {startDate, endDate} : d.lit = "date" /\ IsValidDate(d.n)
        THEN [error |-> FALSE, results |-> Perms(mapped)]
        ELSE [error |-> TRUE, results |-> {}]

\* Date.prototype.setMonth(getMonth() - months): the month is carried into the
\* year, and a day the month does not have runs over into the next month
setMonthBack(date, months) ==
    LET y == date \div 10000
        d == date % 100
        m0 == (((date \div 100) % 100) - 1) - months
        year == y + (m0 \div 12)
        month == (m0 % 12) + 1
        over == d > DaysInMonth(year, month)
        nextYear == IF month = 12 THEN year + 1 ELSE year
        nextMonth == IF month = 12 THEN 1 ELSE month + 1
    IN  IF over THEN nextYear * 10000 + nextMonth * 100 + (d - DaysInMonth(year, month))
        ELSE year * 10000 + month * 100 + d

\* to_char(date, 'YYYY-MM'), as the number YYYYMM
toCharMonth(date) == date \div 100

monthAsc(rows) == [r \in rows |-> r.month]

\* result.forEach(...) into monthlyData, then Object.entries: one entry per
\* month, in the order the months were first met; a row that is not income
\* fills expenses
monthlyData(result) ==
    LET firsts == {i \in DOMAIN result :
                      \A j \in 1..(i - 1) : result[j].month # result[i].month}
        at(k) == CHOOSE i \in firsts : Cardinality({j \in firsts : j < i}) = k - 1
        amountOf(month, income) ==
            LET hits == {i \in DOMAIN result :
                            /\ result[i].month = month
                            /\ (result[i].type = "income") = income}
            IN  IF hits = {} THEN Zero
                ELSE NumberOrZero(result[CHOOSE i \in hits : TRUE].amount)
    IN  [k \in 1..Cardinality(firsts) |->
            [month |-> result[at(k)].month,
             income |-> amountOf(result[at(k)].month, TRUE),
             expenses |-> amountOf(result[at(k)].month, FALSE)]]

\* no upper bound on the date; GROUP BY month, type ORDER BY month.  A month
\* count that is no number makes an invalid Date, whose toISOString throws
getIncomeVsExpenses(userId, months) ==
    LET startDate == setMonthBack(today, months.n)
        rows == {r \in transactions : r.userId = userId /\ r.date >= startDate}
        groups == {[month |-> toCharMonth(r.date), type |-> r.type,
                    amount |-> sum({x \in rows :
                                       /\ toCharMonth(x.date) = toCharMonth(r.date)
                                       /\ x.type = r.type})] : r \in rows}
    IN  IF months.nan THEN [error |-> TRUE, results |-> {}]
        ELSE [error |-> FALSE,
              results |-> {monthlyData(result) :
                              result \in OrderBy(groups, monthAsc(groups))}]

(***************************************************************************)
(* server/localAuth.ts: the middleware in front of every route             *)
(***************************************************************************)
\* the user object the session holds for an owner
SessionUser(o) ==
    [id |-> Str(o), email |-> Str(o \o "@financetracker.com"),
     firstName |-> Str("Demo"), lastName |-> Str("User"), profileImageUrl |-> Null]

\* a session that is logged in whatever it holds
loggedInAlways(o) == TRUE

\* req.session?.user of the client of owner o: set by GET /api/login, gone when
\* GET /api/logout has destroyed the session
loggedIn(o) == o \in session

\* isAuthenticated for a logged-in session: upserts the profile, ignoring a
\* failure of the upsert, and hands the owner id to the route
isAuthenticated(o) == upsertUser(SessionUser(o)).rows

(***************************************************************************)
(* server/routes.ts: the routes.  A reply is the status, the rows sent in  *)
(* the body and the table as the route leaves it.                          *)
(***************************************************************************)
Reply(status, body, rows) == [status |-> status, body |-> body, rows |-> rows]

\* the create that takes the owner from the body when the body names one
postTransactionOwnerFromBody(userId, body) ==
    LET validatedData == Parse(insertTransactionSchema, body, FALSE)
        created == createTransaction(Spread(Spread(validatedData.data,
                                                   [userId |-> Str(userId)]),
                                            Only(body, {"userId"})))
    IN  IF ~validatedData.ok THEN Reply(400, <<>>, transactions)
        ELSE IF created.error THEN Reply(500, <<>>, transactions)
        ELSE Reply(201, created.returning, created.rows)

\* app.post('/api/transactions')
postTransaction(userId, body) ==
    LET validatedData == Parse(insertTransactionSchema, body, FALSE)
        created == createTransaction(Spread(validatedData.data, [userId |-> Str(userId)]))
    IN  IF ~validatedData.ok THEN Reply(400, <<>>, transactions)
        ELSE IF created.error THEN Reply(500, <<>>, transactions)
        ELSE Reply(201, created.returning, created.rows)

\* app.put('/api/transactions/:id')
putTransaction(userId, id, body) ==
    LET validatedData == Parse(insertTransactionSchema, body, TRUE)
        updated == updateTransaction(id, userId, validatedData.data)
    IN  IF ~validatedData.ok THEN Reply(400, <<>>, transactions)
        ELSE IF updated.error THEN Reply(500, <<>>, transactions)
        ELSE IF updated.returning = <<>> THEN Reply(404, <<>>, updated.rows)
        ELSE Reply(200, updated.returning, updated.rows)

\* app.delete('/api/transactions/:id')
delTransaction(userId, id) ==
    LET deleted == deleteTransaction(id, userId)
    IN  IF ~deleted.result THEN Reply(404, <<>>, deleted.rows)
        ELSE Reply(204, <<>>, deleted.rows)

\* app.post('/api/budgets')
postBudget(userId, body) ==
    LET validatedData == Parse(insertBudgetSchema, body, FALSE)
        created == createBudget(Spread(validatedData.data, [userId |-> Str(userId)]))
    IN  IF ~validatedData.ok THEN Reply(400, <<>>, budgets)
        ELSE IF created.error THEN Reply(500, <<>>, budgets)
        ELSE Reply(201, created.returning, created.rows)

\* the route with the storage call made before the validation
putBudgetWritesFirst(userId, id, body) ==
    LET updated == updateBudget(id, userId, Only(body, DOMAIN insertBudgetSchema))
        validatedData == Parse(insertBudgetSchema, body, TRUE)
    IN  IF updated.error THEN Reply(500, <<>>, budgets)
        ELSE IF ~validatedData.ok THEN Reply(400, <<>>, updated.rows)
        ELSE IF updated.returning = <<>> THEN Reply(404, <<>>, updated.rows)
        ELSE Reply(200, updated.returning, updated.rows)

\* app.put('/api/budgets/:id')
putBudget(userId, id, body) ==
    LET validatedData == Parse(insertBudgetSchema, body, TRUE)
        updated == updateBudget(id, userId, validatedData.data)
    IN  IF ~validatedData.ok THEN Reply(400, <<>>, budgets)
        ELSE IF updated.error THEN Reply(500, <<>>, budgets)
        ELSE IF updated.returning = <<>> THEN Reply(404, <<>>, updated.rows)
        ELSE Reply(200, updated.returning, updated.rows)

\* app.delete('/api/budgets/:id')
delBudget(userId, id) ==
    LET deleted == deleteBudget(id, userId)
    IN  IF ~deleted.result THEN Reply(404, <<>>, deleted.rows)
        ELSE Reply(204, <<>>, deleted.rows)

\* app.post('/api/goals')
postGoal(userId, body) ==
    LET validatedData == Parse(insertGoalSchema, body, FALSE)
        created == createGoal(Spread(validatedData.data, [userId |-> Str(userId)]))
    IN  IF ~validatedData.ok THEN Reply(400, <<>>, goals)
        ELSE IF created.error THEN Reply(500, <<>>, goals)
        ELSE Reply(201, created.returning, created.rows)

\* app.put('/api/goals/:id')
putGoal(userId, id, body) ==
    LET validatedData == Parse(insertGoalSchema, body, TRUE)
        updated == updateGoal(id, userId, validatedData.data)
    IN  IF ~validatedData.ok THEN Reply(400, <<>>, goals)
        ELSE IF updated.error THEN Reply(500, <<>>, goals)
        ELSE IF updated.returning = <<>> THEN Reply(404, <<>>, updated.rows)
        ELSE Reply(200, updated.returning, updated.rows)

\* app.delete('/api/goals/:id')
delGoal(userId, id) ==
    LET deleted == deleteGoal(id, userId)
    IN  IF ~deleted.result THEN Reply(404, <<>>, deleted.rows)
        ELSE Reply(204, <<>>, deleted.rows)

\* app.get('/api/dashboard')
dashboard(userId) ==
    LET dashboardData == getDashboardData(userId)
    IN  IF dashboardData.error THEN {Reply(500, <<>>, transactions)}
        ELSE {Reply(200, dashboardData.data, transactions)}

\* app.get('/api/analytics/expenses-by-category')
expensesByCategory(userId, query) ==
    LET data == getExpensesByCategory(userId, query.startDate, query.endDate)
    IN  IF ~Truthy(query, "startDate") \/ ~Truthy(query, "endDate")
        THEN {Reply(400, <<>>, transactions)}
        ELSE IF data.error THEN {Reply(500, <<>>, transactions)}
        ELSE {Reply(200, list, transactions) : list \in data.results}

DigitChars == <<"0", "1", "2", "3", "4", "5", "6", "7", "8", "9">>

RECURSIVE DigitsValue(_)
DigitsValue(chars) ==
    IF chars = <<>> THEN 0
    ELSE 10 * DigitsValue(SubSeq(chars, 1, Len(chars) - 1))
         + (CHOOSE d \in 0..9 : DigitChars[d + 1] = chars[Len(chars)])

\* parseInt(text): the number its leading digits spell, NaN without any
parseInt(chars) ==
    LET n == Cardinality({i \in DOMAIN chars :
                             \A j \in 1..i : chars[j] \in Range(DigitChars)})
    IN  [nan |-> n = 0, n |-> DigitsValue(SubSeq(chars, 1, n))]

\* app.get('/api/analytics/income-vs-expenses'): const { months = 6 } = req.query
incomeVsExpenses(userId, query) ==
    LET months == IF "months" \in DOMAIN query THEN query.months ELSE <<"6">>
        data == getIncomeVsExpenses(userId, parseInt(months))
    IN  IF data.error THEN {Reply(500, <<>>, transactions)}
        ELSE {Reply(200, list, transactions) : list \in data.results}

(***************************************************************************)
(* Requests                                                                *)
(***************************************************************************)
ValidTransaction ==
    [type |-> Str("expense"), description |-> Str("lunch"), amount |-> Dec(2505),
     category |-> Str("food"), date |-> DateStr(20240115)]

TransactionBodies ==
    {ValidTransaction,
     Spread(ValidTransaction, [type |-> Str("income"), category |-> Str("salary"),
                               date |-> DateStr(20240205), amount |-> Dec(100000)]),
     Spread(ValidTransaction, [amount |-> Dec(-5000)]),
     Spread(ValidTransaction, [amount |-> Str("abc")]),
     Spread(ValidTransaction, [category |-> Str("rent")]),
     Spread(ValidTransaction, [date |-> DateStr(20240231)]),
     Spread(ValidTransaction, [id |-> Str("id1"), userId |-> Str("u2"),
                               createdAt |-> DateStr(0)])}

\* the transaction requests of the exploration of all three entities
CoreTransactionBodies ==
    {ValidTransaction, Spread(ValidTransaction, [category |-> Str("rent")])}

CoreTransactionPatches ==
    {[amount |-> Dec(7000), id |-> Str("id6"), userId |-> Str("u2"),
      createdAt |-> DateStr(0)],
     [amount |-> Num(7000)]}

CoreFilters == {<<>>}

TransactionPatches ==
    {[amount |-> Dec(7000)],
     [type |-> Str("income"), category |-> Str("salary"), date |-> DateStr(20240120)],
     [description |-> Str("dinner"), id |-> Str("id6"), userId |-> Str("u2"),
      createdAt |-> DateStr(0)],
     [amount |-> Num(7000)],
     [date |-> DateStr(20240231)]}

\* filters whose present fields hold a date, a category, a kind: every
\* combination of an absent field or one of its values
TransactionFilters ==
    {Spread(Spread(sd, ed), Spread(c, t)) :
        sd \in {<<>>, [startDate |-> DateStr(20240115)], [startDate |-> DateStr(20240120)]},
        ed \in {<<>>, [endDate |-> DateStr(20240115)], [endDate |-> DateStr(20240120)]},
        c \in {<<>>, [category |-> Str("food")]},
        t \in {<<>>, [type |-> Str("expense")]}}

\* the filters the list requests of the exploration carry
ListFilters ==
    {<<>>,
     [startDate |-> DateStr(20240115), endDate |-> DateStr(20240120), type |-> Str("expense")],
     [category |-> Str("")],
     [category |-> Str("rent")]}

\* the transactions of the analytics exploration: both kinds, two categories,
\* two months, a day on either side of the middle of a month, and the zero
\* and the negative amounts the insert schema lets through
AnalyticsBodies ==
    {Spread(ValidTransaction, [type |-> Str("income"), category |-> Str("salary"),
                               amount |-> Dec(300), date |-> DateStr(20240301)]),
     Spread(ValidTransaction, [amount |-> Dec(100), date |-> DateStr(20240320)]),
     Spread(ValidTransaction, [date |-> DateStr(20240205)]),
     Spread(ValidTransaction, [category |-> Str("shopping"), amount |-> Dec(0),
                               date |-> DateStr(20240220)]),
     Spread(ValidTransaction, [category |-> Str("shopping"), amount |-> Dec(-5000),
                               date |-> DateStr(20240310)])}

\* what the second owner creates in that exploration: an income and an
\* expense of the same month
OtherOwnerBodies ==
    {b \in AnalyticsBodies : b.date.n \div 100 = 202403 /\ b.amount.n > 0}

\* the days on which the analytics are asked for: the middle and the last day
\* of a month of 31 days, the last day of a month of 30 days
AnalyticsDates == {20240315, 20240331, 20240430}

CategoryQueries ==
    {[startDate |-> DateStr(20240201), endDate |-> DateStr(20240331)],
     [startDate |-> DateStr(20240220), endDate |-> DateStr(20240310)],
     [startDate |-> DateStr(20240201)]}

SeriesQueries == {<<>>, [months |-> <<"1">>], [months |-> <<"3">>]}

Response(route, userId, id, request, reply) ==
    [route |-> route, userId |-> userId, id |-> id, request |-> request,
     status |-> reply.status, body |-> reply.body]

\* the ledger a running dashboard call has been overlapping is noted with it
Overlapped ==
    {[call EXCEPT !.ledgers = @ \cup {transactions}] : call \in inflight}

Served(o) ==
    /\ loggedIn(o)
    /\ users' = isAuthenticated(o)
    /\ now' = now + 1
    /\ today' = today
    /\ session' = session
    /\ inflight' = Overlapped

GetTransactions(o, filters) ==
    /\ now < MaxClock
    /\ LET found == getTransactions(o, filters)
       IN  IF found.error
           THEN resp' = Response("GET /api/transactions", o, "", filters,
                                 Reply(500, <<>>, transactions))
           ELSE \E list \in found.results :
                   resp' = Response("GET /api/transactions", o, "", filters,
                                    Reply(200, list, transactions))
    /\ Served(o)
    /\ UNCHANGED <<transactions, budgets, goals, nextId, removed>>

PostTransaction(o, body) ==
    /\ now < MaxClock
    /\ nextId <= MaxRows
    /\ LET reply == postTransaction(o, body)
       IN  /\ transactions' = reply.rows
           /\ nextId' = IF reply.status = 201 THEN nextId + 1 ELSE nextId
           /\ resp' = Response("POST /api/transactions", o, "", body, reply)
    /\ Served(o)
    /\ UNCHANGED <<budgets, goals, removed>>

PutTransaction(o, id, body) ==
    /\ now < MaxClock
    /\ LET reply == putTransaction(o, id, body)
       IN  /\ transactions' = reply.rows
           /\ resp' = Response("PUT /api/transactions/:id", o, id, body, reply)
    /\ Served(o)
    /\ UNCHANGED <<budgets, goals, nextId, removed>>

DeleteTransaction(o, id) ==
    /\ now < MaxClock
    /\ LET reply == delTransaction(o, id)
       IN  /\ transactions' = reply.rows
           /\ removed' = IF reply.status = 204 THEN removed \cup {<<o, id>>} ELSE removed
           /\ resp' = Response("DELETE /api/transactions/:id", o, id, <<>>, reply)
    /\ Served(o)
    /\ UNCHANGED <<budgets, goals, nextId>>

BudgetBodies ==
    {[category |-> Str("food"), amount |-> Dec(50000)],
     [category |-> Str("rent"), amount |-> Dec(50000)]}

BudgetPatches ==
    {[period |-> Str("yearly")],
     [amount |-> Dec(60000), category |-> Str("shopping"), userId |-> Str("u2"),
      id |-> Str("id6"), createdAt |-> DateStr(0)],
     [amount |-> Num(60000)]}

GoalBodies ==
    {[name |-> Str("trip"), targetAmount |-> Dec(200000), currentAmount |-> Dec(10000),
      targetDate |-> DateStr(20241231)],
     [targetAmount |-> Dec(900000)]}

GoalPatches ==
    {[currentAmount |-> Dec(25000)],
     [currentAmount |-> Num(25000)],
     [name |-> Str("bike"), userId |-> Str("u2"), id |-> Str("id6"),
      createdAt |-> DateStr(0)]}

GetBudgets(o) ==
    /\ now < MaxClock
    /\ \E list \in getBudgets(o) :
          resp' = Response("GET /api/budgets", o, "", <<>>, Reply(200, list, budgets))
    /\ Served(o)
    /\ UNCHANGED <<transactions, budgets, goals, nextId, removed>>

PostBudget(o, body) ==
    /\ now < MaxClock
    /\ nextId <= MaxRows
    /\ LET reply == postBudget(o, body)
       IN  /\ budgets' = reply.rows
           /\ nextId' = IF reply.status = 201 THEN nextId + 1 ELSE nextId
           /\ resp' = Response("POST /api/budgets", o, "", body, reply)
    /\ Served(o)
    /\ UNCHANGED <<transactions, goals, removed>>

PutBudget(o, id, body) ==
    /\ now < MaxClock
    /\ LET reply == putBudget(o, id, body)
       IN  /\ budgets' = reply.rows
           /\ resp' = Response("PUT /api/budgets/:id", o, id, body, reply)
    /\ Served(o)
    /\ UNCHANGED <<transactions, goals, nextId, removed>>

DeleteBudget(o, id) ==
    /\ now < MaxClock
    /\ LET reply == delBudget(o, id)
       IN  /\ budgets' = reply.rows
           /\ resp' = Response("DELETE /api/budgets/:id", o, id, <<>>, reply)
    /\ Served(o)
    /\ UNCHANGED <<transactions, goals, nextId, removed>>

GetGoals(o) ==
    /\ now < MaxClock
    /\ \E list \in getGoals(o) :
          resp' = Response("GET /api/goals", o, "", <<>>, Reply(200, list, goals))
    /\ Served(o)
    /\ UNCHANGED <<transactions, budgets, goals, nextId, removed>>

PostGoal(o, body) ==
    /\ now < MaxClock
    /\ nextId <= MaxRows
    /\ LET reply == postGoal(o, body)
       IN  /\ goals' = reply.rows
           /\ nextId' = IF reply.status = 201 THEN nextId + 1 ELSE nextId
           /\ resp' = Response("POST /api/goals", o, "", body, reply)
    /\ Served(o)
    /\ UNCHANGED <<transactions, budgets, removed>>

PutGoal(o, id, body) ==
    /\ now < MaxClock
    /\ LET reply == putGoal(o, id, body)
       IN  /\ goals' = reply.rows
           /\ resp' = Response("PUT /api/goals/:id", o, id, body, reply)
    /\ Served(o)
    /\ UNCHANGED <<transactions, budgets, nextId, removed>>

DeleteGoal(o, id) ==
    /\ now < MaxClock
    /\ LET reply == delGoal(o, id)
       IN  /\ goals' = reply.rows
           /\ resp' = Response("DELETE /api/goals/:id", o, id, <<>>, reply)
    /\ Served(o)
    /\ UNCHANGED <<transactions, budgets, nextId, removed>>

GetDashboard(o) ==
    /\ now < MaxClock
    /\ \E reply \in dashboard(o) :
          resp' = Response("GET /api/dashboard", o, "", <<>>, reply)
    /\ Served(o)
    /\ UNCHANGED <<transactions, budgets, goals, nextId, removed>>

GetExpensesByCategory(o, query) ==
    /\ now < MaxClock
    /\ \E reply \in expensesByCategory(o, query) :
          resp' = Response("GET /api/analytics/expenses-by-category", o, "", query, reply)
    /\ Served(o)
    /\ UNCHANGED <<transactions, budgets, goals, nextId, removed>>

GetIncomeVsExpenses(o, query) ==
    /\ now < MaxClock
    /\ \E reply \in incomeVsExpenses(o, query) :
          resp' = Response("GET /api/analytics/income-vs-expenses", o, "", query, reply)
    /\ Served(o)
    /\ UNCHANGED <<transactions, budgets, goals, nextId, removed>>

\* the routes registered behind isAuthenticated
LedgerRoutes ==
    {"GET /api/dashboard",
     "GET /api/transactions", "POST /api/transactions",
     "PUT /api/transactions/:id", "DELETE /api/transactions/:id",
     "GET /api/budgets", "POST /api/budgets",
     "PUT /api/budgets/:id", "DELETE /api/budgets/:id",
     "GET /api/goals", "POST /api/goals",
     "PUT /api/goals/:id", "DELETE /api/goals/:id",
     "GET /api/analytics/expenses-by-category",
     "GET /api/analytics/income-vs-expenses"}

\* app.get('/api/dashboard') as far as the first query of getDashboardData:
\* the middleware has run and the income of the month has been read; a window
\* bound that is no calendar date fails that query and the request
DashboardBegin(o) ==
    /\ now < MaxClock
    /\ inflight = {}
    /\ loggedIn(o)
    /\ users' = isAuthenticated(o)
    /\ now' = now + 1
    /\ IF ~IsValidDate(startOfMonth(today)) \/ ~IsValidDate(endOfMonth(today))
       THEN /\ inflight' = {}
            /\ resp' = Response("GET /api/dashboard", o, "", <<>>,
                                 Reply(500, <<>>, transactions))
       ELSE /\ inflight' =
                  {[userId |-> o,
                    incomeResult |->
                        sum(monthlyRows(o, "income", startOfMonth(today),
                                        endOfMonth(today))),
                    ledgers |-> {transactions}]}
            /\ resp' = resp
    /\ UNCHANGED <<transactions, budgets, goals, nextId, removed, today, session>>

\* the rest of the call: the expenses of the month are read from the ledger as
\* it is by now, and the summary is sent
DashboardEnd ==
    /\ \E call \in inflight :
          LET expenseResult ==
                  sum(monthlyRows(call.userId, "expense", startOfMonth(today),
                                  endOfMonth(today)))
              monthlyIncome == NumberOrZero(call.incomeResult)
              monthlyExpenses == NumberOrZero(expenseResult)
              dashboardData ==
                  [totalBalance |-> Minus(monthlyIncome, monthlyExpenses),
                   monthlyIncome |-> monthlyIncome,
                   monthlyExpenses |-> monthlyExpenses,
                   savingsRate |-> savingsRate(monthlyIncome, monthlyExpenses)]
          IN  resp' = Response("GET /api/dashboard", call.userId, "", <<>>,
                               Reply(200, dashboardData, transactions))
    /\ inflight' = {}
    /\ UNCHANGED <<users, transactions, budgets, goals, now, nextId, removed, today,
                   session>>

\* Goals.addMoneyMutation of the client of owner o, amount in hundredths: the
\* goal is looked up in the list the client fetched last, the new amount is
\* computed there as a number and sent as PUT /api/goals/:id; without the
\* goal in the list the mutation throws and no request is sent
AddFunds(o, id, amount) ==
    /\ resp.route = "GET /api/goals"
    /\ resp.userId = o
    /\ resp.status = 200
    /\ \E goal \in Range(resp.body) :
          /\ goal.id = id
          /\ LET current == IF goal.currentAmount = SqlNull(goalsTable.currentAmount)
                            THEN 0 ELSE goal.currentAmount
                 newCurrentAmount == Num((current + amount) * 10)
             IN  PutGoal(o, id, [currentAmount |-> newCurrentAmount])

\* storage.upsertUser called with a profile: the outcome is recorded as the
\* response, 200 with the row it returns or 500 when the statement throws
UpsertUser(userData) ==
    /\ now < MaxClock
    /\ LET upserted == upsertUser(userData)
       IN  /\ users' = upserted.rows
           /\ resp' = Response("upsertUser", userData.id.s, "", userData,
                                IF upserted.error THEN Reply(500, <<>>, users)
                                ELSE Reply(200, upserted.returning, upserted.rows))
    /\ now' = now + 1
    /\ UNCHANGED <<transactions, budgets, goals, nextId, removed, today, session,
                   inflight>>

\* app.get("/api/login"): the session is given its user; res.redirect("/")
Login(o) ==
    /\ session' = session \cup {o}
    /\ resp' = Response("GET /api/login", o, "", <<>>, Reply(302, <<>>, {}))
    /\ UNCHANGED <<users, transactions, budgets, goals, now, nextId, removed, today,
                   inflight>>

\* app.get("/api/logout"): req.session.destroy, then res.redirect("/")
Logout(o) ==
    /\ session' = session \ {o}
    /\ resp' = Response("GET /api/logout", o, "", <<>>, Reply(302, <<>>, {}))
    /\ UNCHANGED <<users, transactions, budgets, goals, now, nextId, removed, today,
                   inflight>>

\* isAuthenticated on a session without a user: 401 before any storage call,
\* and the route behind it is not entered
Unauthorized(o, route) ==
    /\ ~loggedIn(o)
    /\ resp' = Response(route, o, "", <<>>, Reply(401, <<>>, {}))
    /\ UNCHANGED <<users, transactions, budgets, goals, now, nextId, removed, today,
                   session, inflight>>

\* the store as constructed, with the sessions of both owners logged in
Init ==
    /\ users = {}
    /\ transactions = {}
    /\ budgets = {}
    /\ goals = {}
    /\ now = 0
    /\ nextId = 1
    /\ removed = {}
    /\ resp = [route |-> "", userId |-> "", id |-> "", request |-> <<>>,
               status |-> 0, body |-> <<>>]
    /\ today = 20240115
    /\ session = Owners
    /\ inflight = {}

\* the same start on any of the days of the analytics exploration
InitAnalytics ==
    /\ users = {}
    /\ transactions = {}
    /\ budgets = {}
    /\ goals = {}
    /\ now = 0
    /\ nextId = 1
    /\ removed = {}
    /\ resp = [route |-> "", userId |-> "", id |-> "", request |-> <<>>,
               status |-> 0, body |-> <<>>]
    /\ today \in AnalyticsDates
    /\ session = Owners
    /\ inflight = {}

\* transactions created, and the dashboard and the analytics asked for
NextAnalytics ==
    \/ \E body \in AnalyticsBodies : PostTransaction("u1", body)
    \/ \E body \in OtherOwnerBodies : PostTransaction("u2", body)
    \/ \E o \in Owners : GetDashboard(o)
    \/ \E o \in Owners, query \in CategoryQueries : GetExpensesByCategory(o, query)
    \/ \E o \in Owners, query \in SeriesQueries : GetIncomeVsExpenses(o, query)

SpecAnalytics == InitAnalytics /\ [][NextAnalytics]_vars

\* requests on the transactions alone
NextTransactions ==
    \/ \E o \in Owners, f \in ListFilters : GetTransactions(o, f)
    \/ \E o \in Owners, body \in TransactionBodies : PostTransaction(o, body)
    \/ \E o \in Owners, id \in RequestIds, body \in TransactionPatches :
          PutTransaction(o, id, body)
    \/ \E o \in Owners, id \in RequestIds : DeleteTransaction(o, id)

SpecTransactions == Init /\ [][NextTransactions]_vars

\* requests on transactions, budgets and goals
Next ==
    \/ \E o \in Owners, f \in CoreFilters : GetTransactions(o, f)
    \/ \E o \in Owners, body \in CoreTransactionBodies : PostTransaction(o, body)
    \/ \E o \in Owners, id \in RequestIds, body \in CoreTransactionPatches :
          PutTransaction(o, id, body)
    \/ \E o \in Owners, id \in RequestIds : DeleteTransaction(o, id)
    \/ \E o \in Owners : GetBudgets(o)
    \/ \E o \in Owners, body \in BudgetBodies : PostBudget(o, body)
    \/ \E o \in Owners, id \in RequestIds, body \in BudgetPatches : PutBudget(o, id, body)
    \/ \E o \in Owners, id \in RequestIds : DeleteBudget(o, id)
    \/ \E o \in Owners : GetGoals(o)
    \/ \E o \in Owners, body \in GoalBodies : PostGoal(o, body)
    \/ \E o \in Owners, id \in RequestIds, body \in GoalPatches : PutGoal(o, id, body)
    \/ \E o \in Owners, id \in RequestIds : DeleteGoal(o, id)

Spec == Init /\ [][Next]_vars

\* a January income and a January expense
OverlapBodies ==
    {ValidTransaction,
     Spread(ValidTransaction,
            [type |-> Str("income"), category |-> Str("salary"),
             amount |-> Dec(300000)])}

\* a change of the amount and a change of the kind
OverlapPatches ==
    {[amount |-> Dec(7000)],
     [type |-> Str("income"), category |-> Str("salary")]}

\* dashboard calls with creates, updates and deletes of transactions
\* committing between their two queries
NextOverlap ==
    \/ \E o \in Owners : DashboardBegin(o)
    \/ DashboardEnd
    \/ \E o \in Owners, body \in OverlapBodies : PostTransaction(o, body)
    \/ \E o \in Owners, id \in RequestIds, body \in OverlapPatches :
          PutTransaction(o, id, body)
    \/ \E o \in Owners, id \in RequestIds : DeleteTransaction(o, id)

SpecOverlap == Init /\ [][NextOverlap]_vars

\* patches of which any two share a field and differ in another
UpdatePatches ==
    {[amount |-> Dec(7000), description |-> Str("dinner")],
     [amount |-> Dec(9000), category |-> Str("shopping")],
     [description |-> Str("snack"), category |-> Str("other"),
      date |-> DateStr(20240120)]}

\* updates of one row committing one after the other, and the lists read
\* in between
NextUpdates ==
    \/ \E o \in Owners : PostTransaction(o, ValidTransaction)
    \/ \E o \in Owners, id \in RequestIds, body \in UpdatePatches :
          PutTransaction(o, id, body)
    \/ \E o \in Owners : GetTransactions(o, <<>>)

SpecUpdates == Init /\ [][NextUpdates]_vars

\* two budgets of one category with amounts of their own, and a budget of a
\* category declared after it and spelled before it
PlanningBudgetBodies ==
    {[category |-> Str("food"), amount |-> Dec(50000)],
     [category |-> Str("food"), amount |-> Dec(30000), period |-> Str("weekly")],
     [category |-> Str("entertainment"), amount |-> Dec(20000)]}

\* budgets and goals created, changed, deleted and listed
NextPlanning ==
    \/ \E o \in Owners : GetBudgets(o)
    \/ \E o \in Owners, body \in PlanningBudgetBodies : PostBudget(o, body)
    \/ \E o \in Owners, id \in RequestIds, body \in BudgetPatches : PutBudget(o, id, body)
    \/ \E o \in Owners, id \in RequestIds : DeleteBudget(o, id)
    \/ \E o \in Owners : GetGoals(o)
    \/ \E o \in Owners, body \in GoalBodies : PostGoal(o, body)

SpecPlanning == Init /\ [][NextPlanning]_vars

\* what a body may add to name an owner and an id of its own
Forged == {<<>>, [userId |-> Str("u2")], [userId |-> Str("u1"), id |-> Str("id1")]}

ForgedTransactionBodies == {Spread(ValidTransaction, f) : f \in Forged}

ForgedBudgetBodies ==
    {Spread([category |-> Str("food"), amount |-> Dec(50000)], f) : f \in Forged}

ForgedGoalBodies ==
    {Spread([name |-> Str("trip"), targetAmount |-> Dec(200000)], f) : f \in Forged}

\* creates of every table with bodies that name an owner
NextCreates ==
    \/ \E o \in Owners, body \in ForgedTransactionBodies : PostTransaction(o, body)
    \/ \E o \in Owners, body \in ForgedBudgetBodies : PostBudget(o, body)
    \/ \E o \in Owners, body \in ForgedGoalBodies : PostGoal(o, body)

SpecCreates == Init /\ [][NextCreates]_vars

\* profiles of two ids with an email of two, or none, and a name of two
Profiles ==
    {[id |-> Str(o), email |-> email, firstName |-> Str(name),
      lastName |-> Str("User"), profileImageUrl |-> Null] :
        o \in Owners,
        email \in {Str("demo@financetracker.com"), Str("ann@financetracker.com"), Null},
        name \in {"Demo", "Ann"}}

\* profiles upserted one after the other
NextProfiles == \E userData \in Profiles : UpsertUser(userData)

SpecProfiles == Init /\ [][NextProfiles]_vars

\* the amounts a user adds to a goal, in hundredths
FundsAmounts == {5000, 12050}

\* goals created and listed, and funds added from the list
NextGoals ==
    \/ \E o \in Owners, body \in GoalBodies : PostGoal(o, body)
    \/ \E o \in Owners : GetGoals(o)
    \/ \E o \in Owners, id \in RequestIds, amount \in FundsAmounts :
          AddFunds(o, id, amount)

SpecGoals == Init /\ [][NextGoals]_vars

\* a row of the first owner as createTransaction left it before the clock of
\* the exploration started; the amount in hundredths
SeriesRow(k, type, amount, category, date) ==
    [id |-> IdNames[k], userId |-> "u1", type |-> type, description |-> "lunch",
     amount |-> amount, category |-> category, date |-> date, currency |-> "INR",
     createdAt |-> k - 6, updatedAt |-> k - 6]

\* March with an expense alone, April with an income alone, May with both
SeriesLedgers ==
    {{SeriesRow(1, "expense", 2505, "food", march),
      SeriesRow(2, "income", 30000, "salary", 20240410),
      SeriesRow(3, "income", 10000, "freelance", 20240505),
      SeriesRow(4, "expense", 1000, "food", 20240506)} :
        march \in {20240301, 20240320}}

SeriesDates == {20240515, 20240531}

\* the store after the first owner has created the rows of one of the ledgers,
\* on a day of May
InitSeries ==
    /\ users = {[id |-> "u1", email |-> "u1@financetracker.com",
                 firstName |-> "Demo", lastName |-> "User",
                 profileImageUrl |-> "<null>", defaultCurrency |-> "INR",
                 createdAt |-> -5, updatedAt |-> -2]}
    /\ transactions \in SeriesLedgers
    /\ budgets = {}
    /\ goals = {}
    /\ now = 0
    /\ nextId = 5
    /\ removed = {}
    /\ resp = [route |-> "", userId |-> "", id |-> "", request |-> <<>>,
               status |-> 0, body |-> <<>>]
    /\ today \in SeriesDates
    /\ session = Owners
    /\ inflight = {}

\* the series asked for on that ledger
NextSeries ==
    \E o \in Owners, query \in SeriesQueries : GetIncomeVsExpenses(o, query)

SpecSeries == InitSeries /\ [][NextSeries]_vars

\* the store as constructed and no session logged in
InitSession ==
    /\ users = {}
    /\ transactions = {}
    /\ budgets = {}
    /\ goals = {}
    /\ now = 0
    /\ nextId = 1
    /\ removed = {}
    /\ resp = [route |-> "", userId |-> "", id |-> "", request |-> <<>>,
               status |-> 0, body |-> <<>>]
    /\ today = 20240115
    /\ session = {}
    /\ inflight = {}

\* logins, logouts and one request of every route, sent with and without a
\* logged-in session; the requests that write are those of the first owner
NextSession ==
    \/ \E o \in Owners : Login(o)
    \/ \E o \in Owners : Logout(o)
    \/ \E o \in Owners, route \in LedgerRoutes : Unauthorized(o, route)
    \/ \E o \in Owners : GetDashboard(o)
    \/ \E o \in Owners : GetTransactions(o, <<>>)
    \/ PostTransaction("u1", ValidTransaction)
    \/ PutTransaction("u1", IdNames[1], [amount |-> Dec(7000)])
    \/ DeleteTransaction("u1", IdNames[1])
    \/ \E o \in Owners : GetBudgets(o)
    \/ PostBudget("u1", [category |-> Str("food"), amount |-> Dec(50000)])
    \/ PutBudget("u1", IdNames[1], [period |-> Str("yearly")])
    \/ DeleteBudget("u1", IdNames[1])
    \/ \E o \in Owners : GetGoals(o)
    \/ PostGoal("u1", [name |-> Str("trip"), targetAmount |-> Dec(200000)])
    \/ PutGoal("u1", IdNames[1], [currentAmount |-> Dec(25000)])
    \/ DeleteGoal("u1", IdNames[1])
    \/ \E o \in Owners : GetExpensesByCategory(o, <<>>)
    \/ \E o \in Owners : GetIncomeVsExpenses(o, <<>>)

SpecSession == InitSession /\ [][NextSession]_vars

(***************************************************************************)
(* Properties                                                              *)
(***************************************************************************)
\* an id no request of the exploration creates
AbsentId == IdNames[6]

PutRoutes ==
    {"PUT /api/transactions/:id", "PUT /api/budgets/:id", "PUT /api/goals/:id"}

OthersRows(rows, o) == {r \in rows : r.userId # o}

ListsOwnRowsOnly ==
    \A o \in Owners :
        /\ \A f \in ListFilters : \A list \in getTransactions(o, f).results :
              \A i \in DOMAIN list : list[i].userId = o
        /\ \A list \in getBudgets(o) : \A i \in DOMAIN list : list[i].userId = o
        /\ \A list \in getGoals(o) : \A i \in DOMAIN list : list[i].userId = o

OthersUntouched ==
    /\ OthersRows(transactions', resp'.userId) = OthersRows(transactions, resp'.userId)
    /\ OthersRows(budgets', resp'.userId) = OthersRows(budgets, resp'.userId)
    /\ OthersRows(goals', resp'.userId) = OthersRows(goals, resp'.userId)

\* C1: no list made for owner A returns a row of another owner, and no request
\* made for owner A changes or removes a row of another owner, also when the
\* id it names is that of another owner's row.
OwnerIsolation == []ListsOwnRowsOnly /\ [][OthersUntouched]_vars

\* C1 witness: an update by one owner named the id of a row of another owner
OwnerIsolationWitness ==
    /\ resp.route = "PUT /api/transactions/:id"
    /\ resp.status = 404
    /\ \E r \in transactions : r.id = resp.id /\ r.userId # resp.userId

ForeignIds(rows, o) == {r.id : r \in OthersRows(rows, o)}

AbsentIds(rows) == {id \in RequestIds \cup {AbsentId} : \A r \in rows : r.id # id}

\* C2: an update that names another owner's row has the outcome of the same
\* update naming an id no row has: the same status and body, the table left
\* as it was; for transactions, budgets and goals.
NotFoundUniform ==
    \A o \in Owners :
        /\ \A body \in CoreTransactionPatches :
              \A idF \in ForeignIds(transactions, o), idA \in AbsentIds(transactions) :
                 /\ putTransaction(o, idF, body) = putTransaction(o, idA, body)
                 /\ putTransaction(o, idF, body).rows = transactions
        /\ \A body \in BudgetPatches :
              \A idF \in ForeignIds(budgets, o), idA \in AbsentIds(budgets) :
                 /\ putBudget(o, idF, body) = putBudget(o, idA, body)
                 /\ putBudget(o, idF, body).rows = budgets
        /\ \A body \in GoalPatches :
              \A idF \in ForeignIds(goals, o), idA \in AbsentIds(goals) :
                 /\ putGoal(o, idF, body) = putGoal(o, idA, body)
                 /\ putGoal(o, idF, body).rows = goals

\* C2 witness: an update of another owner's budget was answered not found
NotFoundUniformWitness ==
    /\ resp.route = "PUT /api/budgets/:id"
    /\ resp.status = 404
    /\ resp.id \in ForeignIds(budgets, resp.userId)
    /\ AbsentIds(budgets) # {}

\* C3: deleteTransaction returns true exactly when a row with that id owned
\* by the caller exists, and then removes that row alone; for an id no row
\* has or a row of another owner it returns false, raises nothing and leaves
\* every row as it was.
DeleteOutcome ==
    \A o \in Owners, id \in RequestIds \cup {AbsentId} :
        LET owned == {r \in transactions : r.id = id /\ r.userId = o}
            deleted == deleteTransaction(id, o)
        IN  /\ ~deleted.error
            /\ deleted.result = (owned # {})
            /\ deleted.rows = transactions \ owned
            /\ owned = {} => deleted.rows = transactions
            /\ delTransaction(o, id).status = IF owned = {} THEN 404 ELSE 204

\* C3 witness: a delete named a row of another owner and was answered 404
DeleteOutcomeWitness ==
    /\ resp.route = "DELETE /api/transactions/:id"
    /\ resp.status = 404
    /\ resp.id \in ForeignIds(transactions, resp.userId)

\* C4: a transaction deleteTransaction removed for its owner is in no later
\* list of that owner, whatever the filter and whatever was created, updated
\* or deleted since.
DeletedStaysGone ==
    \A d \in removed :
        \A f \in TransactionFilters : \A list \in getTransactions(d[1], f).results :
            \A i \in DOMAIN list : list[i].id # d[2]

\* C4 witness: the owner of a removed transaction has created another since
DeletedStaysGoneWitness ==
    /\ resp.route = "POST /api/transactions"
    /\ resp.status = 201
    /\ \E d \in removed : d[1] = resp.userId

\* the rows a filter asks for: each present field narrows, an absent one not
Wanted(o, f) ==
    {r \in transactions :
        /\ r.userId = o
        /\ "startDate" \in DOMAIN f => r.date >= f.startDate.n
        /\ "endDate" \in DOMAIN f => r.date <= f.endDate.n
        /\ "category" \in DOMAIN f => r.category = f.category.s
        /\ "type" \in DOMAIN f => r.type = f.type.s}

\* C5: for every ledger and every filter, listTransactions returns exactly
\* the caller's transactions that satisfy each present field of the filter,
\* each of them once.
FilterExact ==
    \A o \in Owners, f \in TransactionFilters :
        LET found == getTransactions(o, f)
            wanted == Wanted(o, f)
        IN  /\ ~found.error
            /\ found.results # {}
            /\ \A list \in found.results :
                  /\ Range(list) = wanted
                  /\ Len(list) = Cardinality(wanted)

\* C5 witness: a filter with all four fields keeps one row of the caller's
\* and leaves another out
FilterExactWitness ==
    \E o \in Owners, f \in TransactionFilters :
        /\ DOMAIN f = DOMAIN FilterColumn
        /\ Wanted(o, f) # {}
        /\ Wanted(o, f) # {r \in transactions : r.userId = o}


\* C6: listTransactions returns rows by date descending, and rows of one date
\* in the order of their insertion.
StableDateOrder ==
    (resp.route = "GET /api/transactions" /\ resp.status = 200) =>
        \A i, j \in DOMAIN resp.body :
            i < j =>
                \/ resp.body[i].date > resp.body[j].date
                \/ /\ resp.body[i].date = resp.body[j].date
                   /\ resp.body[i].createdAt < resp.body[j].createdAt

\* what createTransaction is to refuse: an amount that is no non-negative
\* decimal, an unknown kind or category, a date that is no calendar date
InvalidTransactionData(body) ==
    \/ "amount" \in DOMAIN body /\ ~(body.amount.lit = "dec" /\ body.amount.n >= 0)
    \/ "type" \in DOMAIN body /\ body.type.s \notin transactionTypeEnum
    \/ "category" \in DOMAIN body /\ body.category.s \notin categoryEnum
    \/ "date" \in DOMAIN body /\ ~(body.date.lit = "date" /\ IsValidDate(body.date.n))

\* C7: a create of a transaction whose amount, kind, category or date is
\* invalid is answered with a validation error and inserts nothing.
CreateRejectsInvalid ==
    [][(resp'.route = "POST /api/transactions" /\ InvalidTransactionData(resp'.request))
          => (resp'.status = 400 /\ transactions' = transactions)]_vars

\* C8 as stated: a create or update answered with a validation error leaves
\* the whole store, the profiles included, as it was.
RejectedLeavesStore ==
    [][resp'.status = 400 => UNCHANGED <<users, transactions, budgets, goals>>]_vars

\* C8 as amended: a create or update answered with a validation error leaves
\* every transaction, budget and goal as it was and hands out no id.
RejectedLeavesLedger ==
    [][resp'.status = 400 => UNCHANGED <<transactions, budgets, goals, nextId>>]_vars

\* C8 witness: an update of the caller's own budget was answered 400
RejectedLeavesLedgerWitness ==
    /\ resp.route = "PUT /api/budgets/:id"
    /\ resp.status = 400
    /\ \E r \in budgets : r.id = resp.id /\ r.userId = resp.userId

\* the step updated the row resp'.id of table: the fields the patch names hold
\* the patch's values, updatedAt the time of the request, every other field
\* and every other row what it held
PatchFrame(before, after, table) ==
    LET old == CHOOSE r \in before : r.id = resp'.id /\ r.userId = resp'.userId
        new == resp'.body[1]
        named == DOMAIN resp'.request \cap (DOMAIN table \ OmittedKeys)
    IN  /\ \E r \in before : r.id = resp'.id /\ r.userId = resp'.userId
        /\ new \in after
        /\ after \ {new} = before \ {old}
        /\ \A k \in DOMAIN table :
              IF k \in named THEN new[k] = ToColumn(table[k], resp'.request[k])
              ELSE IF k = "updatedAt" THEN new[k] = now /\ new[k] > old[k]
              ELSE new[k] = old[k]

\* C9: a successful update sets the fields its patch names and updatedAt and
\* leaves every other field of the row, and every other row, as it was.
PatchApplied ==
    [][resp'.status = 200 =>
          /\ resp'.route = "PUT /api/transactions/:id" =>
                PatchFrame(transactions, transactions', transactionsTable)
          /\ resp'.route = "PUT /api/budgets/:id" =>
                PatchFrame(budgets, budgets', budgetsTable)
          /\ resp'.route = "PUT /api/goals/:id" =>
                PatchFrame(goals, goals', goalsTable)]_vars

\* C9 witness: an update of a budget with period alone succeeded
PatchAppliedWitness ==
    /\ resp.route = "PUT /api/budgets/:id"
    /\ resp.status = 200
    /\ DOMAIN resp.request = {"period"}
    /\ resp.body[1].period = "yearly"
    /\ resp.body[1].updatedAt > resp.body[1].createdAt

IdentityKept(before, after) ==
    \A r \in before, r2 \in after :
        r.id = r2.id => r.userId = r2.userId /\ r.createdAt = r2.createdAt

IdsKept(before, after) == {r.id : r \in before} = {r.id : r \in after}

\* C10: no request changes the owner or the creation time of a row, and no
\* update changes the id of a row, whatever its body holds.
IdentityFixed ==
    [][/\ IdentityKept(transactions, transactions')
       /\ IdentityKept(budgets, budgets')
       /\ IdentityKept(goals, goals')
       /\ resp'.route \in PutRoutes =>
             /\ IdsKept(transactions, transactions')
             /\ IdsKept(budgets, budgets')
             /\ IdsKept(goals, goals')]_vars

\* C10 witness: an update whose body names id, userId and createdAt succeeded
IdentityFixedWitness ==
    /\ resp.route = "PUT /api/transactions/:id"
    /\ resp.status = 200
    /\ {"id", "userId", "createdAt"} \subseteq DOMAIN resp.request

(***************************************************************************)
(* The dashboard                                                           *)
(***************************************************************************)
DashboardAnswered == resp.route = "GET /api/dashboard" /\ resp.status = 200

\* the caller's rows of one kind dated in the month of the request
InMonth(userId, type) ==
    {r \in transactions :
        r.userId = userId /\ r.type = type /\ r.date \div 100 = today \div 100}

\* C11: in every dashboard summary totalBalance is the decimal difference of
\* the month's income and expenses, to the cent, without rounding drift
BalanceExact ==
    DashboardAnswered =>
        resp.body.totalBalance =
            Number(Total(InMonth(resp.userId, "income"))
                   - Total(InMonth(resp.userId, "expense")))

\* C12: savingsRate is 0 when monthlyIncome is 0, it is
\* (monthlyIncome - monthlyExpenses) / monthlyIncome * 100 when monthlyIncome
\* is positive, and it is never the outcome of a division by zero
SavingsRateGuarded ==
    DashboardAnswered =>
        LET income == resp.body.monthlyIncome
            expenses == resp.body.monthlyExpenses
        IN  /\ income = Zero => resp.body.savingsRate = Zero
            /\ Positive(income) =>
                  resp.body.savingsRate =
                      Times(Divide(Minus(income, expenses), income), Number(10000))
            /\ resp.body.savingsRate # NaN

SavingsRateGuardedWitness ==
    /\ DashboardAnswered
    /\ resp.body.monthlyIncome = Zero
    /\ Positive(resp.body.monthlyExpenses)

\* C13: the summary's monthlyIncome is the sum of the caller's own income
\* dated in the month of the request and monthlyExpenses the same sum for
\* expenses; rows of other owners, of the other kind or of other months add
\* nothing
MonthlyTotalsOwn ==
    DashboardAnswered =>
        /\ resp.body.monthlyIncome = Number(Total(InMonth(resp.userId, "income")))
        /\ resp.body.monthlyExpenses = Number(Total(InMonth(resp.userId, "expense")))

MonthlyTotalsOwnWitness ==
    /\ DashboardAnswered
    /\ \E r \in InMonth(resp.userId, "income") : r.amount # 0
    /\ \E r \in transactions :
          r.userId # resp.userId /\ r.type = "income" /\ r.amount # 0
          /\ r.date \div 100 = today \div 100

\* C14: in every month the dashboard request yields a summary, and its window
\* runs from the first to the last calendar day of the month, both of them
\* calendar dates
DashboardEveryMonth ==
    resp.route = "GET /api/dashboard" =>
        /\ resp.status = 200
        /\ IsValidDate(startOfMonth(today))
        /\ IsValidDate(endOfMonth(today))
        /\ startOfMonth(today) % 100 = 1
        /\ endOfMonth(today) % 100 = DaysInMonth(today \div 10000, (today \div 100) % 100)

(***************************************************************************)
(* Expenses by category                                                    *)
(***************************************************************************)
CategoriesAnswered ==
    resp.route = "GET /api/analytics/expenses-by-category" /\ resp.status = 200

\* the caller's expenses of the requested range
InRange ==
    {r \in transactions :
        /\ r.userId = resp.userId
        /\ r.type = "expense"
        /\ r.date >= resp.request.startDate.n
        /\ r.date <= resp.request.endDate.n}

OfCategory(c) == {r \in InRange : r.category = c}

RECURSIVE TotalOver(_)
TotalOver(categories) ==
    IF categories = {} THEN 0
    ELSE LET c == CHOOSE x \in categories : TRUE
         IN  Total(OfCategory(c)) + TotalOver(categories \ {c})

\* C15: the result has at most one entry per category, each entry's amount is
\* the sum of the caller's expenses of that category in the range, and the
\* sums of the entries add up to the sum of all the caller's expenses in range
CategoryTotals ==
    CategoriesAnswered =>
        /\ \A i, j \in DOMAIN resp.body :
              i # j => resp.body[i].category # resp.body[j].category
        /\ \A i \in DOMAIN resp.body :
              resp.body[i].amount = Number(Total(OfCategory(resp.body[i].category)))
        /\ TotalOver({resp.body[i].category : i \in DOMAIN resp.body}) = Total(InRange)

CategoryTotalsWitness ==
    /\ CategoriesAnswered
    /\ \E i \in DOMAIN resp.body :
          /\ Cardinality(OfCategory(resp.body[i].category)) = 2
          /\ \A r \in OfCategory(resp.body[i].category) : r.amount # 0

\* C16: a category is in the result exactly when it has an expense of the
\* caller in the range, and no entry's amount is zero or negative
CategoryEntriesPositive ==
    CategoriesAnswered =>
        /\ \A c \in categoryEnum :
              (\E i \in DOMAIN resp.body : resp.body[i].category = c)
                  <=> OfCategory(c) # {}
        /\ \A i \in DOMAIN resp.body : Positive(resp.body[i].amount)

\* C17: asked again with the same owner and range on the same ledger, the
\* request returns the same entries in the same order
CategoryOrderRepeats ==
    CategoriesAnswered =>
        \A list \in getExpensesByCategory(resp.userId, resp.request.startDate,
                                          resp.request.endDate).results :
            list = resp.body

(***************************************************************************)
(* Income against expenses, month by month                                 *)
(***************************************************************************)
SeriesAnswered ==
    resp.route = "GET /api/analytics/income-vs-expenses" /\ resp.status = 200

\* the month count of the request
MonthCount ==
    IF "months" \in DOMAIN resp.request THEN parseInt(resp.request.months).n ELSE 6

\* months since year 0 of a month given as YYYYMM
MonthNumber(ym) == (ym \div 100) * 12 + (ym % 100)

\* is the month one of the MonthCount calendar months that end with the
\* month of the request
InSeriesRange(ym) ==
    /\ MonthNumber(ym) <= MonthNumber(today \div 100)
    /\ MonthNumber(ym) > MonthNumber(today \div 100) - MonthCount

\* the caller's rows of a month
RowsOfMonth(ym) ==
    {r \in transactions : r.userId = resp.userId /\ r.date \div 100 = ym}

\* C18: the series has at most monthCount entries, each for one of the
\* monthCount calendar months that end with the current month
SeriesWithinMonths ==
    SeriesAnswered =>
        /\ Len(resp.body) <= MonthCount
        /\ \A i \in DOMAIN resp.body : InSeriesRange(resp.body[i].month)

\* C19: every entry's income is the sum of all the caller's income of the
\* entry's month and its expenses the sum of all the caller's expenses of
\* that month, the earliest month included
SeriesSumsWholeMonth ==
    SeriesAnswered =>
        \A i \in DOMAIN resp.body :
            /\ resp.body[i].income =
                  Number(Total({r \in RowsOfMonth(resp.body[i].month) :
                                   r.type = "income"}))
            /\ resp.body[i].expenses =
                  Number(Total({r \in RowsOfMonth(resp.body[i].month) :
                                   r.type = "expense"}))

\* C20: the series has exactly one entry for each month of the range that
\* has a transaction, none for a month without transactions, and its months
\* strictly ascend
SeriesOneEntryPerMonth ==
    SeriesAnswered =>
        /\ \A r \in transactions :
              r.userId = resp.userId /\ InSeriesRange(r.date \div 100) =>
                  Cardinality({i \in DOMAIN resp.body :
                                  resp.body[i].month = r.date \div 100}) = 1
        /\ \A i \in DOMAIN resp.body : RowsOfMonth(resp.body[i].month) # {}
        /\ \A i, j \in DOMAIN resp.body :
              i < j => resp.body[i].month < resp.body[j].month

(***************************************************************************)
(* Stored amounts                                                          *)
(***************************************************************************)
\* C23: in every state reached through creates and updates of transactions,
\* every stored transaction has an amount of zero or more.
AmountsNonNegative == \A r \in transactions : r.amount >= 0

(***************************************************************************)
(* Sessions                                                                *)
(***************************************************************************)
\* C30: a request to a route of the ledger sent while the caller's session
\* has no logged-in user is answered 401 and leaves every table as it was; a
\* request sent while the session is logged in, that is after a login and
\* before the next logout, is not answered 401.
SessionGate ==
    [][resp'.route \in LedgerRoutes =>
          IF resp'.userId \in session
          THEN resp'.status # 401
          ELSE /\ resp'.status = 401
               /\ UNCHANGED <<users, transactions, budgets, goals, nextId, removed>>]_vars

\* C30 witness: a request of an owner is answered 401 after a logout, and a
\* row that owner created while logged in is in the ledger
SessionGateWitness ==
    /\ resp.route \in LedgerRoutes
    /\ resp.status = 401
    /\ resp.userId \notin session
    /\ \E r \in transactions : r.userId = resp.userId

(***************************************************************************)
(* A dashboard call and the writes that overlap it                         *)
(***************************************************************************)
\* the caller's monthly total of one kind in a given ledger
MonthlyOf(ledger, userId, type) ==
    NumberOrZero(sum({r \in ledger :
                        /\ r.userId = userId
                        /\ r.type = type
                        /\ r.date \div 100 = today \div 100}))

\* C29: the monthlyIncome and monthlyExpenses of one dashboard response are
\* both those of one ledger that existed between the start and the end of
\* the call, whatever creates, updates and deletes committed meanwhile.
DashboardOneLedger ==
    [][(inflight # {} /\ inflight' = {}) =>
          \A call \in inflight :
              \E ledger \in call.ledgers \cup {transactions} :
                  /\ resp'.body.monthlyIncome = MonthlyOf(ledger, call.userId, "income")
                  /\ resp'.body.monthlyExpenses =
                        MonthlyOf(ledger, call.userId, "expense")]_vars

(***************************************************************************)
(* Two updates of one row                                                  *)
(***************************************************************************)
UpdatedTransaction(r) ==
    r.route = "PUT /api/transactions/:id" /\ r.status = 200

\* the fields of a patch that reach the row
Named(patch) == DOMAIN patch \cap (DOMAIN transactionsTable \ OmittedKeys)

\* C25: the row a successful update leaves in the table carries every field
\* of its patch, so no state a reader can see has only some of them; and when
\* an update commits right after another update of the same row, every field
\* of the later patch holds the later value and every field that only the
\* earlier patch names keeps the earlier value.
LastWriteWins ==
    [][UpdatedTransaction(resp') =>
          \E row \in transactions' :
              /\ row.id = resp'.id
              /\ \A k \in Named(resp'.request) :
                    row[k] = ToColumn(transactionsTable[k], resp'.request[k])
              /\ (UpdatedTransaction(resp) /\ resp.id = resp'.id) =>
                    \A k \in Named(resp.request) \ Named(resp'.request) :
                        row[k] = ToColumn(transactionsTable[k], resp.request[k])]_vars

\* C25 witness: two updates of one row have committed one after the other;
\* both patches name the amount, the earlier alone the description and the
\* later alone the category, and the row holds the later amount, the earlier
\* description and the later category
LastWriteWinsWitness ==
    /\ UpdatedTransaction(resp)
    /\ DOMAIN resp.request = {"amount", "category"}
    /\ \E row \in transactions :
          /\ row.id = resp.id
          /\ row.amount = 900
          /\ row.description = "dinner"
          /\ row.category = "shopping"

(***************************************************************************)
(* Budgets and goals                                                       *)
(***************************************************************************)
\* the place of a category in the declaration of the enum
CategoryPlace(r) == EnumIndex(r.category)

\* C26: the list of budgets is the caller's budgets with the categories
\* ascending, a category being before another when the category enum declares
\* it first, and the list of goals is the caller's goals with createdAt
\* ascending.
ListsAscending ==
    /\ (resp.route = "GET /api/budgets" /\ resp.status = 200) =>
          /\ Range(resp.body) = {r \in budgets : r.userId = resp.userId}
          /\ \A i, j \in DOMAIN resp.body :
                i < j => CategoryPlace(resp.body[i]) <= CategoryPlace(resp.body[j])
    /\ (resp.route = "GET /api/goals" /\ resp.status = 200) =>
          /\ Range(resp.body) = {r \in goals : r.userId = resp.userId}
          /\ \A i, j \in DOMAIN resp.body :
                i < j => resp.body[i].createdAt <= resp.body[j].createdAt

\* C26 witness: a list of two budgets, food before entertainment
ListsAscendingWitness ==
    /\ resp.route = "GET /api/budgets"
    /\ resp.status = 200
    /\ Len(resp.body) = 2
    /\ resp.body[1].category = "food"
    /\ resp.body[2].category = "entertainment"

\* C27: a create of a budget for an owner and category that have a budget
\* already is answered 201 and adds one row with an id of its own and the
\* amount of the request; the list of budgets holds each of the caller's rows
\* once; and a create, update or delete of budgets leaves every row other
\* than the one it names as it was.
DuplicateBudgetsKept ==
    [][/\ (/\ resp'.route = "POST /api/budgets"
           /\ \E r \in budgets : /\ r.userId = resp'.userId
                                 /\ r.category = resp'.request.category.s) =>
             /\ resp'.status = 201
             /\ \E new \in budgets' :
                   /\ budgets' = budgets \cup {new}
                   /\ new.id \notin {r.id : r \in budgets}
                   /\ new.userId = resp'.userId
                   /\ new.category = resp'.request.category.s
                   /\ new.amount = ToColumn(budgetsTable.amount, resp'.request.amount)
       /\ (resp'.route = "GET /api/budgets" /\ resp'.status = 200) =>
             /\ Range(resp'.body) = {r \in budgets' : r.userId = resp'.userId}
             /\ Len(resp'.body) = Cardinality(Range(resp'.body))
       /\ resp'.route \in {"POST /api/budgets", "PUT /api/budgets/:id",
                           "DELETE /api/budgets/:id"} =>
             \A r \in budgets : r.id # resp'.id => r \in budgets']_vars

\* C27 witness: the list holds two budgets of the caller for food, with two
\* ids and two amounts
DuplicateBudgetsKeptWitness ==
    /\ resp.route = "GET /api/budgets"
    /\ resp.status = 200
    /\ Len(resp.body) = 2
    /\ resp.body[1].category = "food"
    /\ resp.body[2].category = "food"
    /\ resp.body[1].id # resp.body[2].id
    /\ resp.body[1].amount # resp.body[2].amount

(***************************************************************************)
(* The owner of a created row                                              *)
(***************************************************************************)
PostRoutes == {"POST /api/transactions", "POST /api/budgets", "POST /api/goals"}

\* C28: every row a create request adds to a table has the owner of the
\* session the request came with, whatever userId or id its body names, and
\* a create answered 201 answers with that row.
CreatedRowsOwned ==
    [][resp'.route \in PostRoutes =>
          /\ \A r \in transactions' \ transactions : r.userId = resp'.userId
          /\ \A r \in budgets' \ budgets : r.userId = resp'.userId
          /\ \A r \in goals' \ goals : r.userId = resp'.userId
          /\ resp'.status = 201 =>
                /\ resp'.body[1].userId = resp'.userId
                /\ \/ resp'.body[1] \in transactions' \ transactions
                   \/ resp'.body[1] \in budgets' \ budgets
                   \/ resp'.body[1] \in goals' \ goals]_vars

\* C28 witness: a create whose body names another owner was answered 201
\* with a row of the caller, who by now has a transaction and a budget
CreatedRowsOwnedWitness ==
    /\ resp.route \in PostRoutes
    /\ resp.status = 201
    /\ "userId" \in DOMAIN resp.request
    /\ resp.request.userId.s # resp.userId
    /\ resp.body[1].userId = resp.userId
    /\ \E r \in transactions : r.userId = resp.userId
    /\ \E r \in budgets : r.userId = resp.userId

(***************************************************************************)
(* Profiles                                                                *)
(***************************************************************************)
\* C24: an upsert of a profile with an id succeeds on every store: it adds
\* the profile when no profile has the id, it overwrites the email, the names
\* and the image of the profile with the id otherwise, and it leaves every
\* other profile as it was.
UpsertAlwaysSucceeds ==
    [][resp'.route = "upsertUser" =>
          /\ resp'.status = 200
          /\ \E new \in users' :
                /\ new.id = resp'.userId
                /\ new.email = ToColumn(usersTable.email, resp'.request.email)
                /\ new.firstName = resp'.request.firstName.s
                /\ {u \in users' : u.id # new.id} = {u \in users : u.id # new.id}]_vars

(***************************************************************************)
(* Funds added to a goal                                                   *)
(***************************************************************************)
\* C22: when funds are added to a goal, the stored currentAmount of the goal
\* becomes what was stored before plus the amount added, the amount added
\* being the amount the request carries less the amount of the list it was
\* computed from; so the stored amount never decreases.
FundsAdded ==
    [][(resp'.route = "PUT /api/goals/:id" /\ resp.route = "GET /api/goals") =>
          \E old \in goals, new \in goals', listed \in Range(resp.body) :
              /\ old.id = resp'.id
              /\ new.id = resp'.id
              /\ listed.id = resp'.id
              /\ new.currentAmount * 10 =
                    old.currentAmount * 10
                        + (resp'.request.currentAmount.n - listed.currentAmount * 10)
              /\ new.currentAmount > old.currentAmount]_vars

(***************************************************************************)
(* The series over months of one kind                                      *)
(***************************************************************************)
\* the caller's rows of the month that lies back months before this one
RowsBack(back) ==
    {r \in transactions :
        /\ r.userId = resp.userId
        /\ MonthNumber(r.date \div 100) = MonthNumber(today \div 100) - back}

Kinds(rows) == {r.type : r \in rows}

\* C21: an entry of a month whose transactions are all of one kind has 0 for
\* the other kind; and when the month two back has expenses alone, the month
\* before this one income alone and this month both, the series of month
\* count 3 has three entries, the first with income 0 and the second with
\* expenses 0.
SeriesZeroForOtherKind ==
    SeriesAnswered =>
        /\ \A i \in DOMAIN resp.body :
              /\ Kinds(RowsOfMonth(resp.body[i].month)) = {"expense"} =>
                    resp.body[i].income = Zero
              /\ Kinds(RowsOfMonth(resp.body[i].month)) = {"income"} =>
                    resp.body[i].expenses = Zero
        /\ (/\ MonthCount = 3
            /\ Kinds(RowsBack(2)) = {"expense"}
            /\ Kinds(RowsBack(1)) = {"income"}
            /\ Kinds(RowsBack(0)) = {"income", "expense"}) =>
              /\ Len(resp.body) = 3
              /\ resp.body[1].income = Zero
              /\ resp.body[2].expenses = Zero

====
